---------------------------- MODULE Spec2Model ----------------------------
(***************************************************************************)
(* Trilinear interpolation of corner features (interpolation_kernel.cu).   *)
(*                                                                         *)
(* The two host functions trilinear_forward_cu and trilinear_backward_cu   *)
(* each allocate an output tensor, size a grid of 16 x 16 thread blocks    *)
(* and launch one kernel thread per (cube, channel) slot of the grid.      *)
(* The model has one action per host function, one action per kernel       *)
(* (a step is one thread running the whole kernel body), and one action    *)
(* for the completion of a launch.                                         *)
(*                                                                         *)
(* scalar_t is modelled by exact rational numbers <<num, den>> in lowest   *)
(* terms with den > 0: the arithmetic of the kernels is performed as       *)
(* written, without rounding.  Floating-point rounding is outside the      *)
(* model.                                                                  *)
(***************************************************************************)
EXTENDS Integers, Sequences, FiniteSets, TLC

VARIABLES
    features,               \* caller's tensor (N, 8, F)
    points,                 \* caller's tensor (N, 3)
    dL_dfeatInterpOutput,   \* caller's tensor (N, F), the upstream gradient
    pc,                     \* "host": no launch in flight; "running": kernel in flight
    kernel,                 \* "none", "forward" or "backward": the kernel last launched
    N, F,                   \* the host function's locals
    numBlocks,              \* <<x, y>> of the launch
    live,                   \* the launched threads whose guard holds
    ran,                    \* the threads of live that have run
    cursor,                 \* the first thread outside live that has not run
    featInterpOutput,       \* the forward output tensor
    dL_dFeatures,           \* the backward output tensor
    reads,                  \* every element read so far by the launch: <<thread, tensor, index>>
    writes,                 \* every element write so far by the launch: <<thread, tensor, index>> -> count
    hist,                   \* the completed calls, oldest first
    script                  \* what the caller will still do, in order

vars == <<features, points, dL_dfeatInterpOutput, pc, kernel, N, F, numBlocks,
          live, ran, cursor, featInterpOutput, dL_dFeatures, reads, writes, hist,
          script>>

---------------------------------------------------------------------------
(* scalar_t: exact rationals *)

Abs(x) == IF x < 0 THEN -x ELSE x

RECURSIVE GCD(_, _)
GCD(x, y) == IF y = 0 THEN x ELSE GCD(y, x % y)

\* num/den divided through by g
Reduced(num, den, g) == <<num \div g, den \div g>>

\* The rational num/den in lowest terms with a positive denominator.
Rat(num, den) ==
    IF den < 0
    THEN Reduced(-num, -den, GCD(Abs(num), Abs(den)))
    ELSE Reduced(num, den, GCD(Abs(num), Abs(den)))

Num(k) == <<k, 1>>
Add(x, y) == Rat(x[1] * y[2] + y[1] * x[2], x[2] * y[2])
Sub(x, y) == Rat(x[1] * y[2] - y[1] * x[2], x[2] * y[2])
Mul(x, y) == Rat(x[1] * y[1], x[2] * y[2])
Div(x, y) == Rat(x[1] * y[2], x[2] * y[1])

---------------------------------------------------------------------------
(* Tensors: a size and the elements, indexed from 0 *)

\* The content of memory that torch::empty hands out before it is written:
\* not a number.
Uninit == <<0, 0>>

Range(k) == 0 .. (k - 1)

Indices(size) ==
    IF Len(size) = 2
    THEN Range(size[1]) \X Range(size[2])
    ELSE Range(size[1]) \X Range(size[2]) \X Range(size[3])

\* torch::empty(size): allocated, not initialised.
Empty(size) == [size |-> size, data |-> [i \in Indices(size) |-> Uninit]]

\* tensor.size(k), k from 0
Size(tensor, k) == tensor.size[k + 1]

\* idx lies inside the tensor: 0 <= idx[k] < size(k) on every axis
InBounds(tensor, idx) ==
    \A k \in 1 .. Len(idx) : 0 <= idx[k] /\ idx[k] < tensor.size[k]

\* accessor[i][j]...: the element, or whatever lies at that address when the
\* index is outside the tensor.
At(tensor, idx, junk) == IF InBounds(tensor, idx) THEN tensor.data[idx] ELSE junk

\* accessor[i][j]... = v: a store outside the tensor does not change it.
Store(tensor, idx, v) ==
    IF InBounds(tensor, idx)
    THEN [tensor EXCEPT !.data = [@ EXCEPT ![idx] = v]]
    ELSE tensor

\* The write log with one more write.
Logged(log, ev) ==
    IF ev \in DOMAIN log THEN [log EXCEPT ![ev] = @ + 1] ELSE log @@ (ev :> 1)

RECURSIVE LoggedAll(_, _)
LoggedAll(log, evs) ==
    IF evs = <<>> THEN log ELSE LoggedAll(Logged(log, Head(evs)), Tail(evs))

---------------------------------------------------------------------------
(* Launch configuration *)

\* numThreadsPerBlock(16, 16, 1): blockDim.x and blockDim.y
numThreadsPerBlock == 16

\* the corner axis of dL_dFeatures
Corners == 8

\* (N + numThreadsPerBlock.x - 1) / numThreadsPerBlock.x
BlocksFor(extent) == (extent + numThreadsPerBlock - 1) \div numThreadsPerBlock

\* The threads of a <<<numBlocks, numThreadsPerBlock>>> launch, numbered in
\* launch order: block by block, and threadIdx.x fastest within a block.
NumThreads(grid) == grid[1] * grid[2] * numThreadsPerBlock * numThreadsPerBlock

Threads(grid) == Range(NumThreads(grid))

\* blockIdx of thread t: <<x, y>>
BlockIdx(t, grid) ==
    LET blk == t \div (numThreadsPerBlock * numThreadsPerBlock)
    IN  <<blk % grid[1], blk \div grid[1]>>

\* threadIdx of thread t: <<x, y>>
ThreadIdx(t) ==
    LET lane == t % (numThreadsPerBlock * numThreadsPerBlock)
    IN  <<lane % numThreadsPerBlock, lane \div numThreadsPerBlock>>

\* A slip in the index: blockDim forgotten.
GlobalIdxWithoutBlockDim(blockIdx, threadIdx) == blockIdx + threadIdx

\* blockDim.x * blockIdx.x + threadIdx.x
GlobalIdx(blockIdx, threadIdx) == numThreadsPerBlock * blockIdx + threadIdx

\* const int n = blockDim.x * blockIdx.x + threadIdx.x;
CubeOf(t, grid) == GlobalIdx(BlockIdx(t, grid)[1], ThreadIdx(t)[1])

\* const int f = blockDim.y * blockIdx.y + threadIdx.y;
ChannelOf(t, grid) == GlobalIdx(BlockIdx(t, grid)[2], ThreadIdx(t)[2])

\* A slip in the guard: n = features.size(0) let through.
GuardInclusive(n, f, feat) == n <= Size(feat, 0) /\ f < Size(feat, 2)

\* if (n < features.size(0) && f < features.size(2))
Guard(n, f, feat) == n < Size(feat, 0) /\ f < Size(feat, 2)

\* The sizes of features do not change while a kernel runs, so the threads
\* whose guard holds are known from the launch on.
GuardHolds(grid, feat) ==
    {t \in Threads(grid) : Guard(CubeOf(t, grid), ChannelOf(t, grid), feat)}

\* The first thread from t on that is not in set.
FirstOutside(t, set) ==
    LET after == (t .. (t + Cardinality(set))) \ set
    IN  CHOOSE s \in after : \A r \in after : s <= r

\* The launched threads that have not run yet.
pending ==
    (live \ ran) \cup ((cursor .. (NumThreads(numBlocks) - 1)) \ live)

\* How far from either end of the launch order the scheduler may reach among
\* the threads that have not run.
Window == 2

\* The Window lowest and the Window highest threads of set.
Ends(set) ==
    {t \in set : \/ Cardinality(set \cap (0 .. (t - 1))) < Window
                 \/ Cardinality(set \ (0 .. t)) < Window}

\* Threads are free to run in any order.  Of the threads whose guard holds,
\* any of the first or last Window still to run may run next: every order of
\* up to 2 * Window threads, and for every two threads of a larger launch
\* orders that run them either way round.  A thread whose guard fails touches
\* no memory, so its place in the order cannot be observed: those threads run
\* last, in launch order.
runnable ==
    IF live \subseteq ran
    THEN {t \in {cursor} : t < NumThreads(numBlocks)}
    ELSE Ends(live \ ran)

\* Thread t has run: it leaves pending.
Retire(t) ==
    /\ live' = live
    /\ IF t \in live
       THEN /\ ran' = ran \cup {t}
            /\ cursor' = cursor
       ELSE /\ ran' = ran
            /\ cursor' = FirstOutside(cursor + 1, live)

---------------------------------------------------------------------------
(* The kernels' arithmetic *)

\* (points[n][k] + 1)/2
Normalized(p) == Div(Add(p, Num(1)), Num(2))

\* (1-v)*(1-w)
CoefA(v, w) == Mul(Sub(Num(1), v), Sub(Num(1), w))

\* A slip in b: v*(1-w), the expression of c.
CoefBAsC(v, w) == Mul(v, Sub(Num(1), w))

\* (1-v)*w
CoefB(v, w) == Mul(Sub(Num(1), v), w)

\* v*(1-w)
CoefC(v, w) == Mul(v, Sub(Num(1), w))

\* A slip in d: 1-a-b, c forgotten.
CoefDWithoutC(a, b, c) == Sub(Sub(Num(1), a), b)

\* 1-a-b-c
CoefD(a, b, c) == Sub(Sub(Sub(Num(1), a), b), c)

\* A slip in the corner order: b weighs corner 2 and c corner 1.
ForwardValueSwapped(u, a, b, c, d, ft) ==
    Add(Mul(Sub(Num(1), u),
            Add(Add(Add(Mul(a, ft[0]), Mul(b, ft[2])), Mul(c, ft[1])), Mul(d, ft[3]))),
        Mul(u,
            Add(Add(Add(Mul(a, ft[4]), Mul(b, ft[5])), Mul(c, ft[6])), Mul(d, ft[7]))))

\* A slip in the index: u taken from points[0][0], whatever n is.
ForwardValueOfCube0(u, a, b, c, d, ft) ==
    Add(Mul(Sub(Num(1), Normalized(points.data[<<0, 0>>])),
            Add(Add(Add(Mul(a, ft[0]), Mul(b, ft[1])), Mul(c, ft[2])), Mul(d, ft[3]))),
        Mul(Normalized(points.data[<<0, 0>>]),
            Add(Add(Add(Mul(a, ft[4]), Mul(b, ft[5])), Mul(c, ft[6])), Mul(d, ft[7]))))

\* The right-hand side of output[n][f] = ..., ft[k] being features[n][k][f].
ForwardValue(u, a, b, c, d, ft) ==
    Add(Mul(Sub(Num(1), u),
            Add(Add(Add(Mul(a, ft[0]), Mul(b, ft[1])), Mul(c, ft[2])), Mul(d, ft[3]))),
        Mul(u,
            Add(Add(Add(Mul(a, ft[4]), Mul(b, ft[5])), Mul(c, ft[6])), Mul(d, ft[7]))))

\* A slip in the faces: u weighs corners 0..3 and 1-u corners 4..7.
BackwardValueFlipped(u, a, b, c, d, g) ==
    [k \in 0 .. 7 |->
        CASE k = 0 -> Mul(Mul(u, a), g)
          [] k = 1 -> Mul(Mul(u, b), g)
          [] k = 2 -> Mul(Mul(u, c), g)
          [] k = 3 -> Mul(Mul(u, d), g)
          [] k = 4 -> Mul(Mul(Sub(Num(1), u), a), g)
          [] k = 5 -> Mul(Mul(Sub(Num(1), u), b), g)
          [] k = 6 -> Mul(Mul(Sub(Num(1), u), c), g)
          [] k = 7 -> Mul(Mul(Sub(Num(1), u), d), g)]

\* A slip in the face u = 0: the factor 1-u forgotten.
BackwardValueWithoutU(u, a, b, c, d, g) ==
    [k \in 0 .. 7 |->
        CASE k = 0 -> Mul(a, g)
          [] k = 1 -> Mul(b, g)
          [] k = 2 -> Mul(c, g)
          [] k = 3 -> Mul(d, g)
          [] k = 4 -> Mul(Mul(u, a), g)
          [] k = 5 -> Mul(Mul(u, b), g)
          [] k = 6 -> Mul(Mul(u, c), g)
          [] k = 7 -> Mul(Mul(u, d), g)]

\* A slip in the chain rule: each gradient scaled by features[0][k][0].
BackwardValueTimesFeature(u, a, b, c, d, g) ==
    [k \in 0 .. 7 |->
        CASE k = 0 -> Mul(Mul(Mul(Sub(Num(1), u), a), g), features.data[<<0, k, 0>>])
          [] k = 1 -> Mul(Mul(Mul(Sub(Num(1), u), b), g), features.data[<<0, k, 0>>])
          [] k = 2 -> Mul(Mul(Mul(Sub(Num(1), u), c), g), features.data[<<0, k, 0>>])
          [] k = 3 -> Mul(Mul(Mul(Sub(Num(1), u), d), g), features.data[<<0, k, 0>>])
          [] k = 4 -> Mul(Mul(Mul(u, a), g), features.data[<<0, k, 0>>])
          [] k = 5 -> Mul(Mul(Mul(u, b), g), features.data[<<0, k, 0>>])
          [] k = 6 -> Mul(Mul(Mul(u, c), g), features.data[<<0, k, 0>>])
          [] k = 7 -> Mul(Mul(Mul(u, d), g), features.data[<<0, k, 0>>])]

\* The right-hand sides of dL_dFeatures[n][k][f] = ..., k = 0..7, g being
\* dL_dfeatInterpOutput[n][f].
BackwardValue(u, a, b, c, d, g) ==
    [k \in 0 .. 7 |->
        CASE k = 0 -> Mul(Mul(Sub(Num(1), u), a), g)
          [] k = 1 -> Mul(Mul(Sub(Num(1), u), b), g)
          [] k = 2 -> Mul(Mul(Sub(Num(1), u), c), g)
          [] k = 3 -> Mul(Mul(Sub(Num(1), u), d), g)
          [] k = 4 -> Mul(Mul(u, a), g)
          [] k = 5 -> Mul(Mul(u, b), g)
          [] k = 6 -> Mul(Mul(u, c), g)
          [] k = 7 -> Mul(Mul(u, d), g)]

---------------------------------------------------------------------------
(* Kernels: one step is one thread running the kernel body *)

TensorNames == {"features", "points", "dL_dfeatInterpOutput"}

\* What a read outside a tensor may return.
Junk == {Num(0), Num(1)}

Tensor(name) ==
    CASE name = "features" -> features
      [] name = "points" -> points
      [] name = "dL_dfeatInterpOutput" -> dL_dfeatInterpOutput

\* What the reads rs that fall outside their tensor may return, per tensor.
\* When every read is inside, nothing is drawn.
Garbage(rs) ==
    IF \A r \in rs : InBounds(Tensor(r[1]), r[2])
    THEN {[name \in TensorNames |-> Num(0)]}
    ELSE [TensorNames -> Junk]

\* The elements the forward kernel reads for (n, f).
ForwardReads(n, f) ==
    {<<"points", <<n, k>>>> : k \in 0 .. 2}
    \cup {<<"features", <<n, k, f>>>> : k \in 0 .. 7}

\* The elements the backward kernel reads for (n, f).
BackwardReads(n, f) ==
    {<<"points", <<n, k>>>> : k \in 0 .. 2}
    \cup {<<"dL_dfeatInterpOutput", <<n, f>>>>}

ForwardKernel(t) ==
    LET n == CubeOf(t, numBlocks)
        f == ChannelOf(t, numBlocks)
    IN  /\ pc = "running"
        /\ kernel = "forward"
        /\ t \in runnable
        /\ Retire(t)
        /\ IF Guard(n, f, features)
           THEN \E junk \in Garbage(ForwardReads(n, f)) :
                LET u == Normalized(At(points, <<n, 0>>, junk["points"]))
                    v == Normalized(At(points, <<n, 1>>, junk["points"]))
                    w == Normalized(At(points, <<n, 2>>, junk["points"]))
                    a == CoefA(v, w)
                    b == CoefB(v, w)
                    c == CoefC(v, w)
                    d == CoefD(a, b, c)
                    ft == [k \in 0 .. 7 |-> At(features, <<n, k, f>>, junk["features"])]
                IN  /\ featInterpOutput' =
                         Store(featInterpOutput, <<n, f>>, ForwardValue(u, a, b, c, d, ft))
                    /\ reads' = reads \cup {<<t, r[1], r[2]>> : r \in ForwardReads(n, f)}
                    /\ writes' = Logged(writes, <<t, "featInterpOutput", <<n, f>>>>)
           ELSE UNCHANGED <<featInterpOutput, reads, writes>>
        /\ UNCHANGED <<features, points, dL_dfeatInterpOutput, pc, kernel, N, F,
                       numBlocks, dL_dFeatures, hist, script>>

RECURSIVE StoreCorners(_, _, _, _, _)
\* dL_dFeatures[n][k][f] = val[k] for k = from .. 7, in that order
StoreCorners(tensor, n, f, val, from) ==
    IF from > 7 THEN tensor
    ELSE StoreCorners(Store(tensor, <<n, from, f>>, val[from]), n, f, val, from + 1)

BackwardKernel(t) ==
    LET n == CubeOf(t, numBlocks)
        f == ChannelOf(t, numBlocks)
    IN  /\ pc = "running"
        /\ kernel = "backward"
        /\ t \in runnable
        /\ Retire(t)
        /\ IF Guard(n, f, features)
           THEN \E junk \in Garbage(BackwardReads(n, f)) :
                LET u == Normalized(At(points, <<n, 0>>, junk["points"]))
                    v == Normalized(At(points, <<n, 1>>, junk["points"]))
                    w == Normalized(At(points, <<n, 2>>, junk["points"]))
                    a == CoefA(v, w)
                    b == CoefB(v, w)
                    c == CoefC(v, w)
                    d == CoefD(a, b, c)
                    g == At(dL_dfeatInterpOutput, <<n, f>>, junk["dL_dfeatInterpOutput"])
                IN  /\ dL_dFeatures' =
                         StoreCorners(dL_dFeatures, n, f, BackwardValue(u, a, b, c, d, g), 0)
                    /\ reads' = reads \cup {<<t, r[1], r[2]>> : r \in BackwardReads(n, f)}
                    /\ writes' = LoggedAll(writes,
                                     [k \in 1 .. 8 |-> <<t, "dL_dFeatures", <<n, k - 1, f>>>>])
           ELSE UNCHANGED <<dL_dFeatures, reads, writes>>
        /\ UNCHANGED <<features, points, dL_dfeatInterpOutput, pc, kernel, N, F,
                       numBlocks, featInterpOutput, hist, script>>

---------------------------------------------------------------------------
(* Host functions *)

NoLog == [ev \in {} |-> 0]

\* trilinear_forward_cu(features, points)
ForwardCu ==
    /\ pc = "host"
    /\ script # <<>>
    /\ Head(script) = "forward"
    /\ script' = Tail(script)
    /\ N' = Size(features, 0)
    /\ F' = Size(features, 2)
    /\ featInterpOutput' = Empty(<<N', F'>>)
    /\ numBlocks' = <<BlocksFor(N'), BlocksFor(F')>>
    /\ live' = GuardHolds(numBlocks', features)
    /\ ran' = {}
    /\ cursor' = FirstOutside(0, live')
    /\ kernel' = "forward"
    /\ pc' = "running"
    /\ reads' = {}
    /\ writes' = NoLog
    /\ UNCHANGED <<features, points, dL_dfeatInterpOutput, dL_dFeatures, hist>>

\* trilinear_backward_cu(dL_dfeatInterpOutput, features, points)
BackwardCu ==
    /\ pc = "host"
    /\ script # <<>>
    /\ Head(script) = "backward"
    /\ script' = Tail(script)
    /\ N' = Size(features, 0)
    /\ F' = Size(features, 2)
    /\ dL_dFeatures' = Empty(<<N', Corners, F'>>)
    /\ numBlocks' = <<BlocksFor(N'), BlocksFor(F')>>
    /\ live' = GuardHolds(numBlocks', features)
    /\ ran' = {}
    /\ cursor' = FirstOutside(0, live')
    /\ kernel' = "backward"
    /\ pc' = "running"
    /\ reads' = {}
    /\ writes' = NoLog
    /\ UNCHANGED <<features, points, dL_dfeatInterpOutput, featInterpOutput, hist>>

\* Every thread of the launch has run: the returned tensor is complete.
Complete ==
    /\ pc = "running"
    /\ pending = {}
    /\ pc' = "host"
    /\ hist' = Append(hist,
                  [kernel |-> kernel, features |-> features, points |-> points,
                   dL_dfeatInterpOutput |-> dL_dfeatInterpOutput,
                   result |-> IF kernel = "forward" THEN featInterpOutput ELSE dL_dFeatures])
    /\ UNCHANGED <<features, points, dL_dfeatInterpOutput, kernel, N, F, numBlocks,
                   live, ran, cursor, featInterpOutput, dL_dFeatures, reads, writes,
                   script>>

---------------------------------------------------------------------------
(* The caller: its tensors, and what it does between calls *)

MaxN == 2
MaxF == 2

\* Coordinates of query points: the faces -1 and 1, inside, and outside [-1, 1].
Coords == <<Num(-1), Num(0), Num(1), <<1, 2>>, Num(3)>>

\* Rows of eight corner features.
FeatRows ==
    << <<0, 0, 0, 0, 1, 1, 1, 1>>,
       <<2, -3, 5, 7, -11, 13, 17, 19>>,
       <<4, 4, 4, 4, 4, 4, 4, 4>> >>

\* Upstream gradients.
GradVals == <<Num(2), Num(-3), <<1, 2>>>>

NumPoints == Len(Coords) * Len(Coords) * Len(Coords)

\* The i-th query point, i in 0 .. NumPoints - 1.
PointAt(i) ==
    LET m == Len(Coords)
    IN  <<Coords[(i % m) + 1], Coords[((i \div m) % m) + 1], Coords[((i \div (m * m)) % m) + 1]>>

\* Tensors of a given size.  Cube n gets the point seven places after that of
\* cube n - 1; cube and channel select the row of features and the gradient:
\* neighbouring cubes and channels carry different data.
MakePoints(size, seed) ==
    [size |-> size,
     data |-> [i \in Indices(size) |-> PointAt((seed + 7 * i[1]) % NumPoints)[(i[2] % 3) + 1]]]

MakeFeatures(size, seed) ==
    [size |-> size,
     data |-> [i \in Indices(size) |->
                 LET row == FeatRows[((seed + i[1] + i[3]) % Len(FeatRows)) + 1]
                 IN  Num(row[(i[2] % 8) + 1] + (IF i[2] >= 8 THEN 1 ELSE 0))]]

MakeGrad(size, seed) ==
    [size |-> size,
     data |-> [i \in Indices(size) |-> GradVals[((seed + i[1] + 2 * i[2]) % Len(GradVals)) + 1]]]

\* Before the first call.
HostIdle ==
    /\ pc = "host"
    /\ kernel = "none"
    /\ N = 0
    /\ F = 0
    /\ numBlocks = <<0, 0>>
    /\ live = {}
    /\ ran = {}
    /\ cursor = 0
    /\ featInterpOutput = Empty(<<0, 0>>)
    /\ dL_dFeatures = Empty(<<0, Corners, 0>>)
    /\ reads = {}
    /\ writes = NoLog
    /\ hist = <<>>

\* One call, forward or backward, on arguments of consistent shape.
Init ==
    /\ \E n \in 1 .. MaxN, f \in 1 .. MaxF,
          ps \in Range(NumPoints), fs \in Range(Len(FeatRows)) :
          /\ features = MakeFeatures(<<n, Corners, f>>, fs)
          /\ points = MakePoints(<<n, 3>>, ps)
          /\ dL_dfeatInterpOutput = MakeGrad(<<n, f>>, fs)
    /\ HostIdle
    /\ script \in {<<"forward">>, <<"backward">>}

Next ==
    \/ ForwardCu
    \/ BackwardCu
    \/ \E t \in runnable : ForwardKernel(t)
    \/ \E t \in runnable : BackwardKernel(t)
    \/ Complete

Spec == Init /\ [][Next]_vars

\* Sizes (N, F) that need one tile, a full tile, and more than one tile in
\* either direction.
GridShapes == {<<1, 1>>, <<3, 2>>, <<16, 1>>, <<17, 1>>, <<1, 17>>}

\* One call, forward or backward, on tensors of the sizes above.
InitGrid ==
    /\ \E shape \in GridShapes :
          /\ features = MakeFeatures(<<shape[1], Corners, shape[2]>>, 1)
          /\ points = MakePoints(<<shape[1], 3>>, 3)
          /\ dL_dfeatInterpOutput = MakeGrad(<<shape[1], shape[2]>>, 1)
    /\ HostIdle
    /\ script \in {<<"forward">>, <<"backward">>}

SpecGrid == InitGrid /\ [][Next]_vars

\* The arguments of a call of kind "forward" or "backward" have the shapes
\* (N, 8, F), (N, 3) and, for backward, (N, F).
ShapesAgree(kind) ==
    /\ Size(features, 1) = 8
    /\ points.size = <<Size(features, 0), 3>>
    /\ kind = "backward" =>
          dL_dfeatInterpOutput.size = <<Size(features, 0), Size(features, 2)>>

\* One call, forward or backward, on arguments whose shapes do not agree:
\* tensors of the right rank and type with a corner axis of 7 or 9, points
\* with 2 columns, or with more or fewer rows or channels than features.
InitShape ==
    /\ \E n \in 1 .. MaxN, f \in 1 .. MaxF, corners \in {7, 8, 9},
          rows \in 0 .. MaxN, cols \in {2, 3},
          gradRows \in 1 .. MaxN, gradCols \in 1 .. MaxF :
          /\ features = MakeFeatures(<<n, corners, f>>, 1)
          /\ points = MakePoints(<<rows, cols>>, 3)
          /\ dL_dfeatInterpOutput = MakeGrad(<<gradRows, gradCols>>, 1)
    /\ HostIdle
    /\ script \in {<<"forward">>, <<"backward">>}
    /\ ~ShapesAgree(Head(script))

SpecShape == InitShape /\ [][Next]_vars

\* What the caller does to its tensors between two calls.
CallerStep(what) ==
    /\ pc = "host"
    /\ script # <<>>
    /\ Head(script) = what
    /\ script' = Tail(script)
    /\ UNCHANGED <<pc, kernel, N, F, numBlocks, live, ran, cursor, featInterpOutput,
                   dL_dFeatures, reads, writes, hist>>

\* Increments of one element of features.
Deltas == {Num(1), <<-3, 2>>}

\* features[idx] += delta, for one element
PerturbFeature ==
    /\ CallerStep("perturb")
    /\ \E idx \in Indices(features.size), delta \in Deltas :
          features' = Store(features, idx, Add(features.data[idx], delta))
    /\ UNCHANGED <<points, dL_dfeatInterpOutput>>

\* tensor with the entries of cube n taken from other
WithCube(tensor, n, other) ==
    [tensor EXCEPT !.data = [i \in DOMAIN @ |-> IF i[1] = n THEN other.data[i] ELSE @[i]]]

\* Seeds of the point rows the caller writes into a cube.
CubeSeeds == {0, 31, 124}

\* The entries of one cube n of all three tensors are replaced.
ReplaceCube ==
    /\ CallerStep("replaceCube")
    /\ \E n \in Range(Size(features, 0)), fs \in Range(Len(FeatRows)), ps \in CubeSeeds :
          /\ features' = WithCube(features, n, MakeFeatures(features.size, fs))
          /\ points' = WithCube(points, n, MakePoints(points.size, ps))
          /\ dL_dfeatInterpOutput' =
                 WithCube(dL_dfeatInterpOutput, n, MakeGrad(dL_dfeatInterpOutput.size, fs))

\* features is replaced by a tensor of the same shape.
ReplaceFeatures ==
    /\ CallerStep("replaceFeatures")
    /\ \E fs \in Range(Len(FeatRows)) : features' = MakeFeatures(features.size, fs)
    /\ UNCHANGED <<points, dL_dfeatInterpOutput>>

\* Seeds of the points of a session.
SessionSeeds == {3, 19, 124}

\* What a caller does in a session: calls, and changes of its tensors between them.
Sessions ==
    {<<"forward", "backward", "perturb", "forward">>,
     <<"forward", "replaceCube", "forward">>,
     <<"backward", "replaceCube", "backward">>,
     <<"backward", "replaceFeatures", "backward">>}

InitSession ==
    /\ \E n \in 1 .. MaxN, f \in 1 .. MaxF, ps \in SessionSeeds :
          /\ features = MakeFeatures(<<n, Corners, f>>, 1)
          /\ points = MakePoints(<<n, 3>>, ps)
          /\ dL_dfeatInterpOutput = MakeGrad(<<n, f>>, 1)
    /\ HostIdle
    /\ script \in Sessions

NextSession ==
    \/ Next
    \/ PerturbFeature
    \/ ReplaceCube
    \/ ReplaceFeatures

SpecSession == InitSession /\ [][NextSession]_vars

---------------------------------------------------------------------------
(* What the claims are stated with *)

\* The completed calls of one kernel.
Calls(kind) == {i \in 1 .. Len(hist) : hist[i].kernel = kind}

\* Row n of points: <<px, py, pz>>.
PointRow(call, n) == [k \in 1 .. 3 |-> call.points.data[<<n, k - 1>>]]

\* The eight corner features of cube n in channel f.
CornerRow(call, n, f) == [k \in 0 .. 7 |-> call.features.data[<<n, k, f>>]]

\* The eight corner weights of a query point p, as the spec gives them.
CornerWeights(p) ==
    LET one == Num(1)
        u == Div(Add(p[1], one), Num(2))
        v == Div(Add(p[2], one), Num(2))
        w == Div(Add(p[3], one), Num(2))
        a == Mul(Sub(one, v), Sub(one, w))
        b == Mul(Sub(one, v), w)
        c == Mul(v, Sub(one, w))
        d == Sub(Sub(Sub(one, a), b), c)
        face == <<a, b, c, d>>
    IN  [k \in 0 .. 7 |->
            IF k < 4 THEN Mul(Sub(one, u), face[k + 1]) ELSE Mul(u, face[k - 3])]

RECURSIVE SumFrom(_, _, _)
\* x[from] + ... + x[to]
SumFrom(x, from, to) ==
    IF from > to THEN Num(0) ELSE Add(x[from], SumFrom(x, from + 1, to))

\* The weighted sum of the eight corner values x.
Blend(wts, x) == SumFrom([k \in 0 .. 7 |-> Mul(wts[k], x[k])], 0, 7)

ExampleFeatures == [k \in 0 .. 7 |-> IF k < 4 THEN Num(0) ELSE Num(1)]
ExamplePoint == <<Num(0), Num(-1), Num(-1)>>

IsExample(call) ==
    /\ call.features.size = <<1, 8, 1>>
    /\ CornerRow(call, 0, 0) = ExampleFeatures
    /\ PointRow(call, 0) = ExamplePoint

---------------------------------------------------------------------------
(* C1 *)

\* C1: once every thread of a forward launch has run, every Output[n,f],
\* 0 <= n < N, 0 <= f < F, is the blend of the eight corner features of cube
\* n in channel f with the corner weights of Points[n], in exact arithmetic,
\* for points inside and outside [-1,1]; the example input gives 1/2.
C1_ForwardResult ==
    \A i \in Calls("forward") :
        LET call == hist[i]
            nn == call.features.size[1]
            ff == call.features.size[3]
        IN  /\ call.result.size = <<nn, ff>>
            /\ \A n \in Range(nn), f \in Range(ff) :
                  call.result.data[<<n, f>>] =
                      Blend(CornerWeights(PointRow(call, n)), CornerRow(call, n, f))
            /\ IsExample(call) => call.result.data[<<0, 0>>] = <<1, 2>>

\* The example of the spec has been computed.
C1_Witness ==
    \E i \in Calls("forward") :
        /\ IsExample(hist[i])
        /\ hist[i].result.data[<<0, 0>>] = <<1, 2>>

---------------------------------------------------------------------------
(* C2 *)

\* C2: once every thread of a backward launch has run, the eight entries
\* FeatureGradient[n,0..7,f] are the eight corner weights of Points[n] times
\* UpstreamGradient[n,f], in corner order; the example input with gradient
\* 2 gives [1,0,0,0,1,0,0,0].
C2_BackwardResult ==
    \A i \in Calls("backward") :
        LET call == hist[i]
            nn == call.features.size[1]
            ff == call.features.size[3]
        IN  /\ call.result.size = <<nn, 8, ff>>
            /\ \A n \in Range(nn), f \in Range(ff), k \in 0 .. 7 :
                  call.result.data[<<n, k, f>>] =
                      Mul(CornerWeights(PointRow(call, n))[k],
                          call.dL_dfeatInterpOutput.data[<<n, f>>])
            /\ (IsExample(call) /\ call.dL_dfeatInterpOutput.data[<<0, 0>>] = Num(2))
                  => [k \in 0 .. 7 |-> call.result.data[<<0, k, 0>>]]
                       = [k \in 0 .. 7 |-> IF k \in {0, 4} THEN Num(1) ELSE Num(0)]

\* The example of the spec has been computed.
C2_Witness ==
    \E i \in Calls("backward") :
        /\ IsExample(hist[i])
        /\ hist[i].dL_dfeatInterpOutput.data[<<0, 0>>] = Num(2)
        /\ hist[i].result.data[<<0, 0, 0>>] = Num(1)
        /\ hist[i].result.data[<<0, 4, 0>>] = Num(1)

---------------------------------------------------------------------------
(* C7, C9 *)

\* The coefficients u, v, w, a, b, c, d as the kernels compute them from a
\* row <<px, py, pz>> of points.
KernelCoefs(p) ==
    LET u == Normalized(p[1])
        v == Normalized(p[2])
        w == Normalized(p[3])
        a == CoefA(v, w)
        b == CoefB(v, w)
        c == CoefC(v, w)
    IN  [u |-> u, v |-> v, w |-> w, a |-> a, b |-> b, c |-> c, d |-> CoefD(a, b, c)]

\* What the forward kernel stores for the corner features ft at point p.
KernelBlend(p, ft) ==
    LET k == KernelCoefs(p) IN ForwardValue(k.u, k.a, k.b, k.c, k.d, ft)

\* The eight corner weights as the backward kernel forms them.
KernelWeights(p) ==
    LET k == KernelCoefs(p) IN BackwardValue(k.u, k.a, k.b, k.c, k.d, Num(1))

UnitRow(j) == [k \in 0 .. 7 |-> IF k = j THEN Num(1) ELSE Num(0)]

OnFace(x) == x \in {Num(-1), Num(1)}

\* (x + 1)/2 for x on a face: 0 or 1
FaceBit(x) == IF x = Num(1) THEN 1 ELSE 0

\* The corner index 4u + 2v + w of a query point on a corner.
CornerIndex(p) == 4 * FaceBit(p[1]) + 2 * FaceBit(p[2]) + FaceBit(p[3])

\* C7: when Points[n] is a corner (2u-1, 2v-1, 2w-1) of the cube, u, v, w in
\* {0,1}, the forward output Output[n,f] is Features[n,k,f] for k = 4u+2v+w,
\* in every channel, and the feature of no other corner contributes.
C7_CornerExactness ==
    \A i \in Calls("forward") :
        LET call == hist[i] IN
        \A n \in Range(call.features.size[1]) :
            LET p == PointRow(call, n) IN
            (OnFace(p[1]) /\ OnFace(p[2]) /\ OnFace(p[3])) =>
                /\ \A f \in Range(call.features.size[3]) :
                      call.result.data[<<n, f>>] =
                          call.features.data[<<n, CornerIndex(p), f>>]
                /\ \A j \in 0 .. 7 :
                      KernelBlend(p, UnitRow(j)) =
                          (IF j = CornerIndex(p) THEN Num(1) ELSE Num(0))

\* A forward call has completed on the corner u = 1, v = 0, w = 1 with
\* corner features that all differ, and the output is that of corner 5.
C7_Witness ==
    \E i \in Calls("forward") :
        /\ PointRow(hist[i], 0) = <<Num(1), Num(-1), Num(1)>>
        /\ \A j, k \in 0 .. 7 :
              j # k => CornerRow(hist[i], 0, 0)[j] # CornerRow(hist[i], 0, 0)[k]
        /\ hist[i].result.data[<<0, 0>>] = CornerRow(hist[i], 0, 0)[5]

\* C9: for every query point, inside or outside [-1,1]^3, the coefficients
\* of both kernels satisfy a+b+c+d = 1 and d = v*w, the eight corner weights
\* sum to 1, and a cube whose eight corner features are all x in a channel
\* has output x in that channel.
C9_PartitionOfUnity ==
    \A i \in 1 .. Len(hist) :
        LET call == hist[i] IN
        \A n \in Range(call.features.size[1]) :
            LET p == PointRow(call, n)
                k == KernelCoefs(p)
            IN  /\ Add(Add(Add(k.a, k.b), k.c), k.d) = Num(1)
                /\ k.d = Mul(k.v, k.w)
                /\ SumFrom(KernelWeights(p), 0, 7) = Num(1)
                /\ SumFrom([j \in 0 .. 7 |-> KernelBlend(p, UnitRow(j))], 0, 7) = Num(1)
                /\ call.kernel = "forward" =>
                      \A f \in Range(call.features.size[3]) :
                          (\A j \in 0 .. 7 :
                               CornerRow(call, n, f)[j] = CornerRow(call, n, f)[0])
                          => call.result.data[<<n, f>>] = CornerRow(call, n, f)[0]

\* A forward call has completed on a point outside [-1,1]^3 of a cube whose
\* eight corner features are all 4, and the output is 4.
C9_Witness ==
    \E i \in Calls("forward") :
        /\ PointRow(hist[i], 0) = <<Num(3), Num(3), Num(3)>>
        /\ CornerRow(hist[i], 0, 0) = [k \in 0 .. 7 |-> Num(4)]
        /\ hist[i].result.data[<<0, 0>>] = Num(4)

---------------------------------------------------------------------------
(* C3, C4 *)

\* The output tensor of the kernel that was launched.
OutputName == IF kernel = "forward" THEN "featInterpOutput" ELSE "dL_dFeatures"

\* The elements of the output for features of size (N, 8, F).
OutputElements ==
    IF kernel = "forward"
    THEN Indices(<<Size(features, 0), Size(features, 2)>>)
    ELSE Indices(<<Size(features, 0), 8, Size(features, 2)>>)

\* The elements written so far: <<tensor, index>>
Written == {<<ev[2], ev[3]>> : ev \in DOMAIN writes}

\* C3: in a dispatch with N >= 1 and F >= 1, multiples of 16 or not, no two
\* distinct units write the same output element, no unit writes an element
\* twice or writes what another reads, and when the dispatch has completed
\* every element of Output (forward) or FeatureGradient (backward) has been
\* written exactly once, by exactly one unit.
C3_WriteOnce ==
    /\ \A ev \in DOMAIN writes : writes[ev] = 1
    /\ Cardinality(Written) = Cardinality(DOMAIN writes)
    /\ {<<ev[2], ev[3]>> : ev \in reads} \cap Written = {}
    /\ (kernel # "none" /\ pending = {}) =>
          Written = {<<OutputName, idx>> : idx \in OutputElements}

\* A backward dispatch over two tiles, N = 17 not a multiple of 16, has
\* completed and 17 * 8 elements have been written.
C3_Witness ==
    /\ kernel = "backward"
    /\ numBlocks = <<2, 1>>
    /\ Size(features, 0) = 17
    /\ pending = {}
    /\ Cardinality(DOMAIN writes) = 17 * 8

\* ceil(x / 16)
CeilDiv16(x) == CHOOSE k \in 0 .. x : 16 * k >= x /\ 16 * (k - 1) < x

\* Every tensor by name.
TensorOf(name) ==
    CASE name = "featInterpOutput" -> featInterpOutput
      [] name = "dL_dFeatures" -> dL_dFeatures
      [] OTHER -> Tensor(name)

\* The access ev = <<thread, tensor, index>> was made by the unit at offset
\* of tile, whose cube and channel are n and f: the unit is inside
\* [0,sizeN) x [0,sizeF) and the access is at its cube and channel, at a
\* corner in 0..7 or a point column in 0..2, and inside the tensor.
AccessInBounds(ev, tile, offset, n, f, sizeN, sizeF) ==
    /\ tile[1] < numBlocks[1] /\ tile[2] < numBlocks[2]
    /\ offset[1] < 16 /\ offset[2] < 16
    /\ n < sizeN /\ f < sizeF
    /\ ev[3][1] = n
    /\ CASE ev[2] = "points" -> ev[3][2] \in 0 .. 2
          [] ev[2] \in {"features", "dL_dFeatures"} -> ev[3][2] \in 0 .. 7 /\ ev[3][3] = f
          [] OTHER -> ev[3][2] = f
    /\ InBounds(TensorOf(ev[2]), ev[3])

\* The access ev of the unit at offset of tile.
AccessOfUnit(ev, tile, offset) ==
    AccessInBounds(ev, tile, offset, 16 * tile[1] + offset[1], 16 * tile[2] + offset[2],
                   Size(features, 0), Size(features, 2))

\* C4: both host functions launch ceil(N/16) x ceil(F/16) tiles of 16x16
\* units; every access is made by a unit whose (n, f) = (16*tileX + offsetX,
\* 16*tileY + offsetY) lies inside [0,N) x [0,F), so a unit outside reads and
\* writes nothing; and for arguments of consistent shape every access is at
\* cube n and channel f of that unit and within bounds: n < N, f < F, corner
\* in 0..7, point column in 0..2.
C4_TilingAndGuard ==
    kernel # "none" =>
        /\ numBlocks = <<CeilDiv16(Size(features, 0)), CeilDiv16(Size(features, 2))>>
        /\ (ran = {} /\ cursor = FirstOutside(0, live)) =>
              Cardinality(pending) = 16 * 16 * numBlocks[1] * numBlocks[2]
        /\ \A ev \in reads \cup DOMAIN writes :
              AccessOfUnit(ev, BlockIdx(ev[1], numBlocks), ThreadIdx(ev[1]))

\* A forward dispatch over two tiles, F = 17 not a multiple of 16, has
\* completed: 17 units made their 11 reads and one write each, and the other
\* 495 units ran without an access.
C4_Witness ==
    /\ kernel = "forward"
    /\ numBlocks = <<1, 2>>
    /\ Size(features, 2) = 17
    /\ pending = {}
    /\ cursor = 512
    /\ Cardinality(reads) = 17 * 11
    /\ Cardinality(DOMAIN writes) = 17

---------------------------------------------------------------------------
(* C5 *)

\* C5: a call whose Features have a corner axis other than 8, whose Points
\* have a last axis other than 3, or whose arguments disagree on N or F,
\* fails before any unit of work is dispatched: no kernel is launched, no
\* unit runs and no output element is written.
C5_MismatchRejected ==
    \A kind \in {"forward", "backward"} :
        (kernel = kind /\ ~ShapesAgree(kind)) =>
            /\ pc # "running"
            /\ ran = {}
            /\ DOMAIN writes = {}
            /\ hist = <<>>

\* A forward call on Features of shape (1, 8, 1) and Points of shape (0, 3)
\* has completed: thread (0, 0) read points[0][0..2] outside the tensor and
\* wrote featInterpOutput[0][0].
C5_Witness ==
    /\ Len(hist) = 1
    /\ hist[1].kernel = "forward"
    /\ hist[1].features.size = <<1, 8, 1>>
    /\ hist[1].points.size = <<0, 3>>
    /\ <<0, "points", <<0, 0>>>> \in reads
    /\ <<0, "featInterpOutput", <<0, 0>>>> \in DOMAIN writes

---------------------------------------------------------------------------
(* C6, C8, C10 *)

\* The elements at which two tensors of one size differ.
DiffAt(x, y) == {i \in DOMAIN x.data : x.data[i] # y.data[i]}

\* The sum over (n, f) of g[n,f] * out[n,f]
Weighted(g, out) ==
    LET cols == out.size[2]
        last == out.size[1] * cols - 1
    IN  SumFrom([j \in 0 .. last |->
                    Mul(g.data[<<j \div cols, j % cols>>], out.data[<<j \div cols, j % cols>>])],
                0, last)

\* C6: for fixed Points and an UpstreamGradient g, replacing Features[n,c,f]
\* by Features[n,c,f] + delta changes the sum over (n',f') of
\* g[n',f'] * forward(Features, Points)[n',f'] by exactly
\* delta * backward(g, Features, Points)[n,c,f], and changes no forward
\* output other than that of (n, f).
C6_GradientCorrectness ==
    \A i \in Calls("forward"), j \in Calls("forward"), k \in Calls("backward") :
        LET before == hist[i]
            after == hist[j]
            bwd == hist[k]
        IN  (/\ before.points = after.points
             /\ bwd.points = before.points
             /\ bwd.features = before.features
             /\ before.features.size = after.features.size
             /\ Cardinality(DiffAt(before.features, after.features)) = 1) =>
                LET idx == CHOOSE e \in DiffAt(before.features, after.features) : TRUE
                    delta == Sub(after.features.data[idx], before.features.data[idx])
                    g == bwd.dL_dfeatInterpOutput
                IN  /\ Sub(Weighted(g, after.result), Weighted(g, before.result)) =
                           Mul(delta, bwd.result.data[idx])
                    /\ DiffAt(before.result, after.result) \subseteq {<<idx[1], idx[3]>>}

\* A forward call, a backward call and a second forward call have completed;
\* between the forward calls Features[1,5,1] grew by -3/2, and the backward
\* result there is not 0.
C6_Witness ==
    /\ Len(hist) = 3
    /\ hist[1].kernel = "forward" /\ hist[2].kernel = "backward" /\ hist[3].kernel = "forward"
    /\ DiffAt(hist[1].features, hist[3].features) = {<<1, 5, 1>>}
    /\ Sub(hist[3].features.data[<<1, 5, 1>>], hist[1].features.data[<<1, 5, 1>>]) = <<-3, 2>>
    /\ hist[2].result.data[<<1, 5, 1>>] # Num(0)
    /\ hist[3].result # hist[1].result

\* The two calls have arguments of the same sizes that agree on every cube
\* other than n.
AgreeOutside(x, y, n) ==
    /\ x.features.size = y.features.size
    /\ x.points.size = y.points.size
    /\ x.dL_dfeatInterpOutput.size = y.dL_dfeatInterpOutput.size
    /\ \A i \in DiffAt(x.features, y.features) : i[1] = n
    /\ \A i \in DiffAt(x.points, y.points) : i[1] = n
    /\ x.kernel = "backward" =>
          \A i \in DiffAt(x.dL_dfeatInterpOutput, y.dL_dfeatInterpOutput) : i[1] = n

\* C8: for forward and for backward, two runs whose inputs differ only in the
\* entries of one cube n (Features, Points and, for backward,
\* UpstreamGradient) have outputs that agree on every other cube m # n.
C8_CubeIndependence ==
    \A i, j \in 1 .. Len(hist) :
        hist[i].kernel = hist[j].kernel =>
            \A n \in Range(hist[i].features.size[1]) :
                AgreeOutside(hist[i], hist[j], n) =>
                    \A e \in DiffAt(hist[i].result, hist[j].result) : e[1] = n

\* Two forward calls on two cubes have completed; between them the caller
\* replaced the features and the point of cube 0, and the output of cube 0
\* changed.
C8_Witness ==
    /\ Len(hist) = 2
    /\ hist[1].kernel = "forward" /\ hist[2].kernel = "forward"
    /\ hist[1].features.size[1] = 2
    /\ DiffAt(hist[1].features, hist[2].features) # {}
    /\ DiffAt(hist[1].points, hist[2].points) # {}
    /\ AgreeOutside(hist[1], hist[2], 0)
    /\ \E e \in DiffAt(hist[1].result, hist[2].result) : e[1] = 0

\* C10: the result of trilinear_backward_cu depends on Features only through
\* its shape: two runs with the same UpstreamGradient and Points and Features
\* of the same shape have the same FeatureGradient, and the backward kernel
\* reads no element of Features.
C10_BackwardIgnoresFeatures ==
    /\ \A i, j \in Calls("backward") :
          (/\ hist[i].dL_dfeatInterpOutput = hist[j].dL_dfeatInterpOutput
           /\ hist[i].points = hist[j].points
           /\ hist[i].features.size = hist[j].features.size) =>
              hist[i].result = hist[j].result
    /\ kernel = "backward" => \A r \in reads : r[2] # "features"

\* Two backward calls have completed on the same gradient and points and on
\* features that differ; the second read points and the gradient.
C10_Witness ==
    /\ Len(hist) = 2
    /\ hist[1].kernel = "backward" /\ hist[2].kernel = "backward"
    /\ hist[1].dL_dfeatInterpOutput = hist[2].dL_dfeatInterpOutput
    /\ hist[1].points = hist[2].points
    /\ DiffAt(hist[1].features, hist[2].features) # {}
    /\ reads # {}
    /\ \E e \in DOMAIN hist[2].result.data : hist[2].result.data[e] # Num(0)

=============================================================================
